---------------------------- MODULE Spec2Model ----------------------------
(***************************************************************************)
(* A model of halide-build: the library (src/src/lib.rs: link, link_lib,   *)
(* compile_shared_library, Build, Source) and the command line program     *)
(* (src/src/bin/halide.rs: main with the subcommands src, build, run, new).*)
(*                                                                         *)
(* Strings and paths are sequences of one-character strings, so that       *)
(* slicing, splitting and path manipulation are computed, not assumed.     *)
(***************************************************************************)
EXTENDS Integers, Sequences, FiniteSets, TLC

VARIABLES
    pc,        \* position of the running program (main, or a library caller)
    cli,       \* the parsed command line (clap's matches) and the environment
    build,     \* the Build value in use
    exists,    \* the file system: which of the paths of interest exist
    alive,     \* the child processes spawned and not yet waited for
    spawned,   \* every command spawned so far, in order
    steps,     \* the steps finished so far, in order, each with its outcome
    removed,   \* the remove_file calls made so far, each with its outcome
    logs,      \* the messages written to stderr by log!, a panic or eprintln!
    out,       \* the lines written to stdout (println!)
    ret,       \* the value returned by the last library call
    exitCode,  \* the exit code of the process, None while it runs
    calls      \* the calls made by a caller of the library, in order

vars == <<pc, cli, build, exists, alive, spawned, steps, removed, logs, out,
          ret, exitCode, calls>>

-----------------------------------------------------------------------------
(* Option and io::Result *)

None == [some |-> FALSE]

Some(v) == [some |-> TRUE, val |-> v]

unwrap_or(o, d) == IF o.some THEN o.val ELSE d

Ok(v) == [ok |-> TRUE, val |-> v]

Err == [ok |-> FALSE]

\* the outcome of an evaluation that may panic
PANIC == [panic |-> TRUE]

Value(v) == [panic |-> FALSE, val |-> v]

-----------------------------------------------------------------------------
(* Strings: sequences of characters *)

StartsWith(s, p) == Len(s) >= Len(p) /\ SubSeq(s, 1, Len(p)) = p

EndsWith(s, p) == Len(s) >= Len(p) /\ SubSeq(s, Len(s) - Len(p) + 1, Len(s)) = p

\* &s[from..], counting from 0: panics when from is past the end
SliceFrom(s, from) ==
    IF from < 0 \/ from > Len(s) THEN PANIC
    ELSE Value(SubSeq(s, from + 1, Len(s)))

\* &s[..len - n], counting from 0: panics when len - n underflows
SliceOff(s, n) ==
    IF Len(s) - n < 0 THEN PANIC
    ELSE Value(SubSeq(s, 1, Len(s) - n))

\* the position of the last c in s, 0 when there is none
LastIndexOf(s, c) ==
    LET I == {i \in 1..Len(s) : s[i] = c}
    IN IF I = {} THEN 0 ELSE CHOOSE i \in I : \A j \in I : j <= i

\* the position of the first c in s, 0 when there is none
IndexOf(s, c) ==
    LET I == {i \in 1..Len(s) : s[i] = c}
    IN IF I = {} THEN 0 ELSE CHOOSE i \in I : \A j \in I : i <= j

\* str::split(" "): the pieces between single spaces, empty pieces included
RECURSIVE split(_)
split(s) ==
    LET i == IndexOf(s, " ")
    IN IF i = 0 THEN <<s>>
       ELSE <<SubSeq(s, 1, i - 1)>> \o split(SubSeq(s, i + 1, Len(s)))

S_lib == <<"l", "i", "b">>
S_a == <<".", "a">>
S_so == <<".", "s", "o">>
S_dylib == <<".", "d", "y", "l", "i", "b">>
S_dotdot == <<".", ".">>

-----------------------------------------------------------------------------
(* std::path on Unix, for paths with no trailing separator and no "."      *)
(* component                                                               *)

\* Path::file_name: the last component, None for the root, "" and ".."
file_name(p) ==
    LET n == SubSeq(p, LastIndexOf(p, "/") + 1, Len(p))
    IN IF n = <<>> \/ n = S_dotdot THEN None ELSE Some(n)

\* Path::parent / PathBuf::pop: the path without its last component
parent(p) ==
    LET i == LastIndexOf(p, "/")
    IN IF i = 0 THEN <<>> ELSE IF i = 1 THEN <<"/">> ELSE SubSeq(p, 1, i - 1)

\* rsplit_file_at_dot: <<before, after>> the last dot of a file name
rsplit_file_at_dot(n) ==
    LET i == LastIndexOf(n, ".")
    IN IF n = S_dotdot THEN <<Some(n), None>>
       ELSE IF i = 0 THEN <<None, Some(n)>>
       ELSE IF i = 1 THEN <<Some(n), None>>
       ELSE <<Some(SubSeq(n, 1, i - 1)), Some(SubSeq(n, i + 1, Len(n)))>>

\* Path::file_stem
file_stem(p) ==
    LET n == file_name(p)
    IN IF ~n.some THEN None
       ELSE LET ba == rsplit_file_at_dot(n.val)
            IN IF ba[1].some THEN ba[1] ELSE ba[2]

\* PathBuf::push of a relative path
join(p, c) ==
    IF p = <<>> THEN c
    ELSE IF p[Len(p)] = "/" THEN p \o c
    ELSE p \o <<"/">> \o c

\* Path::with_file_name
with_file_name(p, n) ==
    IF file_name(p).some THEN join(parent(p), n) ELSE join(p, n)

\* Path::with_extension
with_extension(p, ext) ==
    LET st == file_stem(p)
    IN IF ~st.some THEN p
       ELSE LET base == join(parent(p), st.val)
            IN IF ext = <<>> THEN base ELSE base \o <<".">> \o ext

-----------------------------------------------------------------------------
(* lib.rs: link_lib and link *)

CARGO_LINK_SEARCH == "cargo:rustc-link-search=native="

CARGO_LINK_LIB == "cargo:rustc-link-lib="

\* link_lib: the lines printed, each a pair of the directive and its value
link_lib(path, name) ==
    (IF path.some THEN <<<<CARGO_LINK_SEARCH, path.val>>>> ELSE <<>>)
        \o <<<<CARGO_LINK_LIB, name>>>>

\* link with the suffix cut at s.len() - n where the code cuts at tmp.len() - n
link_cut_by_s(filename) ==
    LET name == file_stem(filename)
    IN IF ~name.some THEN PANIC
       ELSE LET s == name.val
                tmp1 == IF StartsWith(s, S_lib) THEN SliceFrom(s, 3) ELSE Value(s)
                cut(t, n) == IF Len(s) - n > Len(t) THEN PANIC
                             ELSE Value(SubSeq(t, 1, Len(s) - n))
                tmp2 == IF tmp1.panic THEN PANIC
                        ELSE IF EndsWith(s, S_a) THEN cut(tmp1.val, 2)
                        ELSE IF EndsWith(s, S_so) THEN cut(tmp1.val, 3)
                        ELSE IF EndsWith(s, S_dylib) THEN cut(tmp1.val, 6)
                        ELSE tmp1
            IN IF tmp2.panic THEN PANIC
               ELSE Value(link_lib(Some(parent(filename)), tmp2.val))

\* link: the lines printed, or PANIC (a failed expect, a slice out of bounds)
link(filename) ==
    LET name == file_stem(filename)
    IN IF ~name.some THEN PANIC
       ELSE LET s == name.val
                tmp1 == IF StartsWith(s, S_lib) THEN SliceFrom(s, 3) ELSE Value(s)
                tmp2 == IF tmp1.panic THEN PANIC
                        ELSE IF EndsWith(s, S_a) THEN SliceOff(tmp1.val, 2)
                        ELSE IF EndsWith(s, S_so) THEN SliceOff(tmp1.val, 3)
                        ELSE IF EndsWith(s, S_dylib) THEN SliceOff(tmp1.val, 6)
                        ELSE tmp1
            IN IF tmp2.panic THEN PANIC
               ELSE Value(link_lib(Some(parent(filename)), tmp2.val))

-----------------------------------------------------------------------------
(* The string literals of lib.rs and halide.rs *)

S_std == <<"-", "s", "t", "d", "=", "c", "+", "+", "1", "1">>
S_I == <<"-", "I">>
S_include == <<"i", "n", "c", "l", "u", "d", "e">>
S_tools == <<"t", "o", "o", "l", "s">>
S_GenGen == <<"G", "e", "n", "G", "e", "n", ".", "c", "p", "p">>
S_o == <<"-", "o">>
S_L == <<"-", "L">>
S_libdir == <<"l", "i", "b">>
S_lHalide == <<"-", "l", "H", "a", "l", "i", "d", "e">>
S_lpng == <<"-", "l", "p", "n", "g">>
S_ljpeg == <<"-", "l", "j", "p", "e", "g">>
S_lpthread == <<"-", "l", "p", "t", "h", "r", "e", "a", "d">>
S_lncurses == <<"-", "l", "n", "c", "u", "r", "s", "e", "s">>
S_ldl == <<"-", "l", "d", "l">>
S_lz == <<"-", "l", "z">>
S_shared == <<"-", "s", "h", "a", "r", "e", "d">>
S_cxx == <<"c", "+", "+">>
S_git == <<"g", "i", "t">>
S_clone == <<"c", "l", "o", "n", "e">>
S_b == <<"-", "b">>
S_pull == <<"p", "u", "l", "l">>
S_origin == <<"o", "r", "i", "g", "i", "n">>
S_make == <<"m", "a", "k", "e">>
S_so_ext == <<"s", "o">>
S_master == <<"m", "a", "s", "t", "e", "r">>
S_repo == <<"h", "t", "t", "p", "s", ":", "/", "/", "g", "i", "t", "h", "u", "b", ".", "c", "o", "m", "/", "h", "a", "l", "i", "d", "e", "/", "h", "a", "l", "i", "d", "e">>

-----------------------------------------------------------------------------
(* Child processes.  A command is what std::process::Command holds when    *)
(* status() is called.  The outcome of status() is one of                  *)
(*   "nospawn"  the child could not be spawned                             *)
(*   "exit0"    the child ran and exited successfully                      *)
(*   "exit1"    the child ran and exited unsuccessfully                    *)

Command(prog, args, cwd, env) == [prog |-> prog, args |-> args, cwd |-> cwd, env |-> env]

\* status().map(..) with a failed spawn taken for an unsuccessful exit
status_success_no_err(outcome) == Ok(outcome = "exit0")

\* status().map(|status| status.success())
status_success(outcome) ==
    IF outcome = "nospawn" THEN Err ELSE Ok(outcome = "exit0")

\* let res = cmd.status()?; Ok(res.success())
status_try_success(outcome) ==
    IF outcome = "nospawn" THEN Err ELSE Ok(outcome = "exit0")

-----------------------------------------------------------------------------
(* lib.rs: compile_shared_library *)

\* the command compile_shared_library runs; envCXX is the variable CXX
compile_shared_library(compiler, output, args, envCXX) ==
    LET cxx == unwrap_or(envCXX, S_cxx)
        cmd0 == <<S_std>>
        cmd1 == cmd0 \o <<S_shared>> \o <<S_o>> \o <<output>> \o args
    IN Command(unwrap_or(compiler, cxx), cmd1, None, None)

-----------------------------------------------------------------------------
(* lib.rs: Build *)

Build_new(halide_path, output) ==
    [halide_path |-> halide_path,
     src |-> <<>>,
     output |-> output,
     cxx |-> None,
     cxxflags |-> None,
     ldflags |-> None,
     build_args |-> <<>>,
     run_args |-> <<>>,
     keep |-> FALSE,
     generator |-> FALSE]

source_file(self, src) == [self EXCEPT !.src = Append(@, src)]

build_arg(self, src) == [self EXCEPT !.build_args = Append(@, src)]

build_args(self, src) == [self EXCEPT !.build_args = @ \o src]

\* run_arg pushing to build_args
run_arg_to_build_args(self, src) == [self EXCEPT !.build_args = Append(@, src)]

run_arg(self, src) == [self EXCEPT !.run_args = Append(@, src)]

run_args(self, src) == [self EXCEPT !.run_args = @ \o src]

ldflags(self, flags) == [self EXCEPT !.ldflags = Some(flags)]

cxxflags(self, flags) == [self EXCEPT !.cxxflags = Some(flags)]

compiler(self, name) == [self EXCEPT !.cxx = Some(name)]

keep(self, x) == [self EXCEPT !.keep = x]

generator(self, x) == [self EXCEPT !.generator = x]

\* Build::build with the sources before build_args and the ldflags before -o
Build_build_reordered(self, envCXX, envTERMINFO) ==
    LET cxx_default == unwrap_or(envCXX, S_cxx)
        cmd0 == <<S_std>>
        cmd1 == cmd0 \o <<S_I, join(self.halide_path, S_include)>>
                     \o <<S_I, join(self.halide_path, S_tools)>>
        cmd2 == IF self.cxxflags.some THEN cmd1 \o split(self.cxxflags.val) ELSE cmd1
        cmd3 == IF self.generator
                THEN Append(cmd2, join(join(self.halide_path, S_tools), S_GenGen))
                ELSE cmd2
        cmd4 == cmd3 \o self.src
        cmd5 == IF self.ldflags.some THEN cmd4 \o split(self.ldflags.val) ELSE cmd4
        tinfo == unwrap_or(envTERMINFO, S_lncurses)
        cmd6 == cmd5 \o self.build_args
                     \o <<S_o, self.output>>
                     \o <<S_L, join(self.halide_path, S_libdir), S_lHalide, S_lpng,
                          S_ljpeg, S_lpthread, tinfo, S_ldl, S_lz>>
    IN Command(unwrap_or(self.cxx, cxx_default), cmd6, None, None)

\* Build::build up to cmd.status(): the command it runs; envCXX and
\* envTERMINFO are the variables CXX and TERMINFO
Build_build(self, envCXX, envTERMINFO) ==
    LET cxx_default == unwrap_or(envCXX, S_cxx)
        cmd0 == <<S_std>>
        cmd1 == cmd0 \o <<S_I, join(self.halide_path, S_include)>>
                     \o <<S_I, join(self.halide_path, S_tools)>>
        cmd2 == IF self.cxxflags.some THEN cmd1 \o split(self.cxxflags.val) ELSE cmd1
        cmd3 == IF self.generator
                THEN Append(cmd2, join(join(self.halide_path, S_tools), S_GenGen))
                ELSE cmd2
        cmd4 == cmd3 \o self.build_args
        tinfo == unwrap_or(envTERMINFO, S_lncurses)
        cmd5 == cmd4 \o self.src
                     \o <<S_o, self.output>>
                     \o <<S_L, join(self.halide_path, S_libdir), S_lHalide, S_lpng,
                          S_ljpeg, S_lpthread, tinfo, S_ldl, S_lz>>
        cmd6 == IF self.ldflags.some THEN cmd5 \o split(self.ldflags.val) ELSE cmd5
    IN Command(unwrap_or(self.cxx, cxx_default), cmd6, None, None)

\* Build::run after the check of the output: the command it runs
Build_run(self) ==
    Command(self.output, self.run_args, None,
            Some(<<"LD_LIBRARY_PATH", join(self.halide_path, S_libdir)>>))

\* Build::run removing the output when keep is set
Build_run_removes_kept(self) == self.keep

\* Build::run: whether it calls remove_file on the output after the child
Build_run_removes(self) == ~self.keep

-----------------------------------------------------------------------------
(* lib.rs: Source *)

Source_download(self) ==
    Command(S_git, <<S_clone>> \o <<S_b, self.branch>> \o <<self.repo>>
                       \o <<self.halide_path>>, None, None)

Source_update(self) ==
    Command(S_git, <<S_pull>> \o <<S_origin>> \o <<self.branch>>,
            Some(self.halide_path), None)

Source_build(self) ==
    Command(self.make, self.make_flags, Some(self.halide_path), None)

-----------------------------------------------------------------------------
(* halide.rs: the command line.  The inputs of a run are drawn from small  *)
(* sets.                                                                   *)

MaxInputs == 2
MaxArgs == 2

Prefixes(s, lo, hi) == {SubSeq(s, 1, n) : n \in lo..(IF hi < Len(s) THEN hi ELSE Len(s))}

HalidePath == <<"/", "h">>

InputFiles == <<<<"k", ".", "c", "p", "p">>, <<"m", ".", "c", "p", "p">>, <<"n", ".", "c", "p", "p">>, <<"p", ".", "c", "p", "p">>>>

ExtraArgs == <<<<"-", "x">>, <<"-", "y">>, <<"-", "z">>, <<"-", "w">>>>

Compilers == {None, Some(<<"g", "+", "+">>)}

EnvCXX == {None, Some(<<"c", "l", "a", "n", "g", "+", "+">>)}

EnvTERMINFO == {None, Some(<<"-", "l", "t", "i", "n", "f", "o">>)}

CxxFlags == {None, Some(<<"-", "O", "2", " ", " ", "-", "g">>)}

LdFlags == {None, Some(<<"-", "l", "m", " ", "-", "l", "c">>)}

SharedFiles == {None, Some(<<"k", ".", "c", "p", "p">>), Some(<<"d", "/", ".", "k">>),
                Some(<<"/", "k", ".", "a", ".", "b">>), Some(S_dotdot)}

OutputName == <<"o", "u", "t">>

NewPath == <<"g", ".", "c", "p", "p">>

\* what every command line has: -q, -p and the environment
Base(sub, quiet) ==
    [sub |-> sub, quiet |-> quiet, halide_path |-> HalidePath,
     make |-> S_make, source |-> S_repo, branch |-> S_master,
     argCxx |-> None, envCXX |-> None, envTERMINFO |-> None,
     cxxflags |-> None, ldflags |-> None, name |-> OutputName,
     input |-> <<>>, args |-> <<>>, generator |-> FALSE, keep |-> FALSE,
     shared |-> None, path |-> NewPath]

\* the options the build and run subcommands share
Compiling(sub) ==
    {[Base(sub, q) EXCEPT !.argCxx = c, !.envCXX = e, !.envTERMINFO = t,
                          !.cxxflags = cf, !.ldflags = lf, !.input = i,
                          !.args = a, !.generator = g, !.shared = s] :
        q \in BOOLEAN, c \in Compilers, e \in EnvCXX, t \in EnvTERMINFO,
        cf \in CxxFlags, lf \in LdFlags, i \in Prefixes(InputFiles, 1, MaxInputs),
        a \in Prefixes(ExtraArgs, 0, MaxArgs), g \in BOOLEAN, s \in SharedFiles}

CommandLines ==
    {Base(sub, q) : sub \in {"src", "new", "help"}, q \in BOOLEAN}
        \cup {Base("api", FALSE)}
        \cup Compiling("build")
        \cup {[c EXCEPT !.keep = k] : c \in Compiling("run"), k \in BOOLEAN}

\* clap's value_of("cxx"): the flag, else the variable CXX, else the default
value_of_cxx(c) ==
    IF c.argCxx.some THEN c.argCxx
    ELSE IF c.envCXX.some THEN c.envCXX
    ELSE Some(S_cxx)

\* main: the Source of the src subcommand
Source_of(c) ==
    [halide_path |-> c.halide_path, repo |-> c.source, branch |-> c.branch,
     make |-> c.make, make_flags |-> <<>>]

\* main: the Build of the build subcommand
Build_of_build(c) ==
    [halide_path |-> c.halide_path,
     cxx |-> value_of_cxx(c),
     cxxflags |-> c.cxxflags,
     ldflags |-> c.ldflags,
     output |-> c.name,
     src |-> c.input,
     keep |-> TRUE,
     build_args |-> c.args,
     run_args |-> <<>>,
     generator |-> c.generator]

\* the output of the run subcommand, ./halide-<ms>, for one value of the clock
RunOutput == <<".", "/", "h", "a", "l", "i", "d", "e", "-", "7">>

\* main: the Build of the run subcommand
Build_of_run(c) ==
    [halide_path |-> c.halide_path,
     cxx |-> value_of_cxx(c),
     cxxflags |-> c.cxxflags,
     ldflags |-> c.ldflags,
     output |-> RunOutput,
     src |-> c.input,
     keep |-> c.keep,
     run_args |-> c.args,
     build_args |-> <<>>,
     generator |-> c.generator]

\* the shared library path with the extension replaced before the file name
shared_path_ext_first(x) ==
    LET n == file_name(x)
    IN IF ~n.some THEN PANIC
       ELSE Value(with_file_name(with_extension(x, S_so_ext), S_lib \o n.val))

\* main: the path of the shared library of x, PANIC when x has no file name
shared_path(x) ==
    LET n == file_name(x)
    IN IF ~n.some THEN PANIC
       ELSE Value(with_extension(with_file_name(x, S_lib \o n.val), S_so_ext))

-----------------------------------------------------------------------------
(* The running program *)

\* log!: a line on stderr unless -q was given
log(l, msg) == IF cli.quiet THEN l ELSE Append(l, msg)

Step(fn, outcome, r) == [fn |-> fn, outcome |-> outcome, ret |-> r]

\* the value a library function returns for the outcome of its child
Ret(fn, outcome) ==
    IF fn = "compile_shared_library" THEN status_try_success(outcome)
    ELSE status_success(outcome)

\* main with the io::Result<bool> r of a step:
\*   r.expect(expectmsg); if !r { log!(failmsg); exit(1) }
\* and then on to nextpc; nextpc "done" is the end of main
Handle(r, l, failmsg, expectmsg, okmsg, nextpc) ==
    /\ ret' = r
    /\ IF ~r.ok
       THEN /\ logs' = Append(l, expectmsg)
            /\ exitCode' = Some(101)
            /\ pc' = "done"
       ELSE IF ~r.val
       THEN /\ logs' = log(l, failmsg)
            /\ exitCode' = Some(1)
            /\ pc' = "done"
       ELSE /\ logs' = (IF okmsg = "" THEN l ELSE log(l, okmsg))
            /\ exitCode' = (IF nextpc = "done" THEN Some(0) ELSE exitCode)
            /\ pc' = nextpc

\* main with the io::Result<bool> r of compile_shared_library:
\*   r.expect(expectmsg); and the end of main
HandleShared(r, l, expectmsg) ==
    /\ ret' = r
    /\ pc' = "done"
    /\ IF ~r.ok
       THEN /\ logs' = Append(l, expectmsg)
            /\ exitCode' = Some(101)
       ELSE /\ logs' = l
            /\ exitCode' = Some(0)

\* Command::status, first half: the child is spawned and main blocks at
\* waitpc, or the spawn fails and the function returns at once
Start(fn, cmd, waitpc, l, failmsg, expectmsg) ==
    /\ spawned' = Append(spawned, [fn |-> fn, cmd |-> cmd])
    /\ \/ /\ alive' = alive \cup {Len(spawned) + 1}
          /\ pc' = waitpc
          /\ logs' = l
          /\ UNCHANGED <<steps, ret, exitCode>>
       \/ /\ alive' = alive
          /\ steps' = Append(steps, Step(fn, "nospawn", Ret(fn, "nospawn")))
          /\ IF fn = "compile_shared_library"
             THEN HandleShared(Ret(fn, "nospawn"), l, expectmsg)
             ELSE Handle(Ret(fn, "nospawn"), l, failmsg, expectmsg, "", "done")

\* the child spawned and never waited for
Exited_unwaited(fn, o) ==
    /\ alive' = alive
    /\ steps' = Append(steps, Step(fn, o, Ret(fn, o)))
    /\ UNCHANGED spawned

\* Command::status, second half: the child has exited with outcome o
Exited(fn, o) ==
    /\ alive' = alive \ {Len(spawned)}
    /\ steps' = Append(steps, Step(fn, o, Ret(fn, o)))
    /\ UNCHANGED spawned

(* src *)

\* src pulling when the Halide path does not exist and cloning when it does
MainSrc_swapped ==
    /\ pc = "start" /\ cli.sub = "src"
    /\ LET source == Source_of(cli)
       IN IF ~exists.halide
          THEN Start("Source::update", Source_update(source), "wait_git",
                     log(logs, "Updating Halide source"),
                     "Failed to update git repository",
                     "panic: Error updating git repository")
          ELSE Start("Source::download", Source_download(source), "wait_git",
                     log(logs, "Downloading Halide source"),
                     "Failed to clone git repository",
                     "panic: Error downloading git repository")
    /\ UNCHANGED <<cli, build, exists, removed, out, calls>>

MainSrc ==
    /\ pc = "start" /\ cli.sub = "src"
    /\ LET source == Source_of(cli)
       IN IF exists.halide
          THEN Start("Source::update", Source_update(source), "wait_git",
                     log(logs, "Updating Halide source"),
                     "Failed to update git repository",
                     "panic: Error updating git repository")
          ELSE Start("Source::download", Source_download(source), "wait_git",
                     log(logs, "Downloading Halide source"),
                     "Failed to clone git repository",
                     "panic: Error downloading git repository")
    /\ UNCHANGED <<cli, build, exists, removed, out, calls>>

SrcGitExit ==
    /\ pc = "wait_git"
    /\ \E o \in {"exit0", "exit1"} :
        LET fn == spawned[Len(spawned)].fn
        IN /\ Exited(fn, o)
           /\ Handle(Ret(fn, o), logs,
                     IF fn = "Source::update" THEN "Failed to update git repository"
                     ELSE "Failed to clone git repository",
                     "", "", "make")
           \* a successful clone creates the checkout
           /\ exists' = [exists EXCEPT !.halide = @ \/ o = "exit0"]
    /\ UNCHANGED <<cli, build, removed, out, calls>>

SrcMake ==
    /\ pc = "make"
    /\ Start("Source::build", Source_build(Source_of(cli)), "wait_make", logs,
             "Halide build failed", "panic: Error building Halide source")
    /\ UNCHANGED <<cli, build, exists, removed, out, calls>>

SrcMakeExit ==
    /\ pc = "wait_make"
    /\ \E o \in {"exit0", "exit1"} :
        /\ Exited("Source::build", o)
        /\ Handle(Ret("Source::build", o), logs, "Halide build failed", "",
                  "Halide built successfully", "done")
    /\ UNCHANGED <<cli, build, exists, removed, out, calls>>

(* build *)

MainBuild ==
    /\ pc = "start" /\ cli.sub = "build"
    /\ build' = Build_of_build(cli)
    /\ Start("Build::build", Build_build(build', cli.envCXX, cli.envTERMINFO),
             "wait_build", log(logs, "Compiling"),
             "Unable to build", "panic: Error building")
    /\ UNCHANGED <<cli, exists, removed, out, calls>>

\* the compiler has exited: it may have written the output when it succeeded
BuildExit ==
    /\ pc = "wait_build"
    /\ \E o \in {"exit0", "exit1"}, written \in BOOLEAN :
        /\ written => o = "exit0"
        /\ exists' = [exists EXCEPT !.output = @ \/ written]
        /\ Exited("Build::build", o)
        /\ Handle(Ret("Build::build", o), logs, "Unable to build", "", "", "shared")
    /\ UNCHANGED <<cli, build, removed, out, calls>>

(* run *)

MainRun ==
    /\ pc = "start" /\ cli.sub = "run"
    /\ build' = Build_of_run(cli)
    /\ Start("Build::build", Build_build(build', cli.envCXX, cli.envTERMINFO),
             "wait_compile", log(logs, "Compiling"),
             "Failure building", "panic: Error building")
    /\ UNCHANGED <<cli, exists, removed, out, calls>>

RunCompileExit ==
    /\ pc = "wait_compile"
    /\ \E o \in {"exit0", "exit1"}, written \in BOOLEAN :
        /\ written => o = "exit0"
        /\ exists' = [exists EXCEPT !.output = @ \/ written]
        /\ Exited("Build::build", o)
        /\ Handle(Ret("Build::build", o), logs, "Failure building", "", "", "run")
    /\ UNCHANGED <<cli, build, removed, out, calls>>

\* Build::run after the child, or after the failed spawn: remove_file unless
\* keep, its result dropped; rm is whether remove_file succeeds
Cleanup(rm) ==
    IF Build_run_removes(build)
    THEN /\ removed' = Append(removed, [path |-> build.output, ok |-> rm])
         /\ exists' = [exists EXCEPT !.output = @ /\ ~rm]
    ELSE /\ ~rm
         /\ UNCHANGED <<removed, exists>>

\* Build::run without the check of the output
RunRun_unchecked ==
    /\ pc = "run"
    /\ LET l == log(logs, "Running")
       IN /\ spawned' = Append(spawned, [fn |-> "Build::run", cmd |-> Build_run(build)])
          /\ \/ /\ alive' = alive \cup {Len(spawned) + 1}
                /\ pc' = "wait_run"
                /\ logs' = l
                /\ UNCHANGED <<steps, ret, exitCode, removed, exists>>
             \/ /\ alive' = alive
                /\ steps' = Append(steps, Step("Build::run", "nospawn",
                                               Ret("Build::run", "nospawn")))
                /\ \E rm \in BOOLEAN : Cleanup(rm)
                /\ Handle(Ret("Build::run", "nospawn"), l, "Failure while running",
                          "panic: Error running", "", "shared")
    /\ UNCHANGED <<cli, build, out, calls>>

\* main calls Build::run: no output, or the kernel is spawned, or it cannot be
RunRun ==
    /\ pc = "run"
    /\ LET l == log(logs, "Running")
       IN IF ~exists.output
          THEN /\ steps' = Append(steps, Step("Build::run", "nochild", Ok(FALSE)))
               /\ Handle(Ok(FALSE), l, "Failure while running", "panic: Error running",
                         "", "shared")
               /\ UNCHANGED <<spawned, alive, removed, exists>>
          ELSE /\ spawned' = Append(spawned, [fn |-> "Build::run", cmd |-> Build_run(build)])
               /\ \/ /\ alive' = alive \cup {Len(spawned) + 1}
                     /\ pc' = "wait_run"
                     /\ logs' = l
                     /\ UNCHANGED <<steps, ret, exitCode, removed, exists>>
                  \/ /\ alive' = alive
                     /\ steps' = Append(steps, Step("Build::run", "nospawn",
                                                    Ret("Build::run", "nospawn")))
                     /\ \E rm \in BOOLEAN : Cleanup(rm)
                     /\ Handle(Ret("Build::run", "nospawn"), l, "Failure while running",
                               "panic: Error running", "", "shared")
    /\ UNCHANGED <<cli, build, out, calls>>

RunRunExit ==
    /\ pc = "wait_run"
    /\ \E o \in {"exit0", "exit1"}, rm \in BOOLEAN :
        /\ Exited("Build::run", o)
        /\ Cleanup(rm)
        /\ Handle(Ret("Build::run", o), logs, "Failure while running", "", "", "shared")
    /\ UNCHANGED <<cli, build, out, calls>>

(* build and run: --shared *)

Shared ==
    /\ pc = "shared"
    /\ IF cli.shared.some
       THEN LET x == cli.shared.val
                f == shared_path(x)
            IN IF f.panic
               THEN /\ logs' = Append(logs, "panic: called Option::unwrap() on a None value")
                    /\ exitCode' = Some(101)
                    /\ pc' = "done"
                    /\ UNCHANGED <<spawned, alive, steps, ret>>
               ELSE Start("compile_shared_library",
                          compile_shared_library(value_of_cxx(cli), f.val, <<x>>, cli.envCXX),
                          "wait_shared", log(logs, "Building shared library"),
                          "", "panic: Unable to compile shared library")
       ELSE /\ pc' = "done"
            /\ exitCode' = Some(0)
            /\ UNCHANGED <<spawned, alive, steps, ret, logs>>
    /\ UNCHANGED <<cli, build, exists, removed, out, calls>>

SharedExit ==
    /\ pc = "wait_shared"
    /\ \E o \in {"exit0", "exit1"} :
        /\ Exited("compile_shared_library", o)
        /\ HandleShared(Ret("compile_shared_library", o), logs, "")
    /\ UNCHANGED <<cli, build, exists, removed, out, calls>>

(* new *)

\* File::create and write: each succeeds or fails
MainNew ==
    /\ pc = "start" /\ cli.sub = "new"
    /\ \E o \in {"create_failed", "write_failed", "written"} :
        /\ steps' = Append(steps, Step("new", o, IF o = "written" THEN Ok(TRUE) ELSE Err))
        /\ IF o = "create_failed"
           THEN /\ logs' = Append(logs, "panic: Unable to open output file")
                /\ exitCode' = Some(101)
           ELSE /\ logs' = (IF o = "write_failed"
                            THEN log(logs, "Unable to write new file") ELSE logs)
                /\ exitCode' = Some(0)
    /\ pc' = "done"
    /\ UNCHANGED <<cli, build, exists, alive, spawned, removed, out, ret, calls>>

(* no subcommand *)

MainHelp ==
    /\ pc = "start" /\ cli.sub = "help"
    /\ logs' = Append(logs, "help")
    /\ exitCode' = Some(0)
    /\ pc' = "done"
    /\ UNCHANGED <<cli, build, exists, alive, spawned, steps, removed, out, ret, calls>>

-----------------------------------------------------------------------------
(* A caller of the library: link on a file name, or a Build put together   *)
(* with Build::new and the builder methods                                 *)

MaxPieces == 3
MaxCalls == 4

Pieces == {S_lib, S_a, S_so, S_dylib, <<"x">>, S_dotdot}

RECURSIVE Names(_)
Names(n) ==
    IF n = 0 THEN {<<>>}
    ELSE Names(n - 1) \cup {a \o p : a \in Names(n - 1), p \in Pieces}

Dirs == {<<>>, <<"/">>, <<"d">>, <<"/", "d", "/", "e">>}

LinkFiles == {join(d, n) : d \in Dirs, n \in Names(MaxPieces) \ {<<>>}}

Call(fn, arg) == [fn |-> fn, arg |-> arg]

ApiLink ==
    /\ pc = "start" /\ cli.sub = "api"
    /\ \E f \in LinkFiles :
        /\ calls' = <<Call("link", f)>>
        /\ LET r == link(f)
           IN IF r.panic
              THEN /\ logs' = Append(logs, "panic")
                   /\ exitCode' = Some(101)
                   /\ out' = out
              ELSE /\ out' = out \o r.val
                   /\ exitCode' = Some(0)
                   /\ logs' = logs
    /\ pc' = "done"
    /\ UNCHANGED <<cli, build, exists, alive, spawned, steps, removed, ret>>

ApiNew ==
    /\ pc = "start" /\ cli.sub = "api"
    /\ build' = Build_new(HalidePath, OutputName)
    /\ calls' = <<Call("new", <<HalidePath, OutputName>>)>>
    /\ pc' = "builder"
    /\ UNCHANGED <<cli, exists, alive, spawned, steps, removed, logs, out, ret, exitCode>>

\* a builder method has been called with arg and has returned b
Built(fn, arg, b) ==
    /\ pc = "builder"
    /\ Len(calls) < MaxCalls
    /\ build' = b
    /\ calls' = Append(calls, Call(fn, arg))
    /\ UNCHANGED <<pc, cli, exists, alive, spawned, steps, removed, logs, out, ret, exitCode>>

ApiSourceFile == \E x \in {InputFiles[1], InputFiles[2]} :
    Built("source_file", x, source_file(build, x))

ApiBuildArg == \E x \in {ExtraArgs[1]} :
    Built("build_arg", x, build_arg(build, x))

ApiBuildArgs == \E x \in {<<ExtraArgs[2], ExtraArgs[3]>>} :
    Built("build_args", x, build_args(build, x))

ApiRunArg == \E x \in {<<"1">>} :
    Built("run_arg", x, run_arg(build, x))

ApiRunArgs == \E x \in {<<<<"2">>, <<"3">>>>} :
    Built("run_args", x, run_args(build, x))

ApiLdflags == \E x \in {<<"-", "l", "m">>, <<"-", "l", "c">>} :
    Built("ldflags", x, ldflags(build, x))

ApiCxxflags == \E x \in {<<"-", "O", "2">>, <<"-", "g">>} :
    Built("cxxflags", x, cxxflags(build, x))

ApiCompiler == \E x \in {<<"g", "+", "+">>, <<"c", "c">>} :
    Built("compiler", x, compiler(build, x))

ApiKeep == \E x \in BOOLEAN :
    Built("keep", x, keep(build, x))

ApiGenerator == \E x \in BOOLEAN :
    Built("generator", x, generator(build, x))

-----------------------------------------------------------------------------
(* The specification *)

Init ==
    /\ pc = "start"
    /\ cli \in CommandLines
    /\ build = None
    /\ exists \in {[halide |-> h, output |-> FALSE] : h \in BOOLEAN}
    /\ cli.sub # "src" => exists.halide
    /\ alive = {}
    /\ spawned = <<>>
    /\ steps = <<>>
    /\ removed = <<>>
    /\ logs = <<>>
    /\ out = <<>>
    /\ ret = None
    /\ exitCode = None
    /\ calls = <<>>

Next ==
    \/ MainSrc \/ SrcGitExit \/ SrcMake \/ SrcMakeExit
    \/ MainBuild \/ BuildExit
    \/ MainRun \/ RunCompileExit \/ RunRun \/ RunRunExit
    \/ Shared \/ SharedExit
    \/ MainNew \/ MainHelp
    \/ ApiLink \/ ApiNew
    \/ ApiSourceFile \/ ApiBuildArg \/ ApiBuildArgs \/ ApiRunArg \/ ApiRunArgs
    \/ ApiLdflags \/ ApiCxxflags \/ ApiCompiler \/ ApiKeep \/ ApiGenerator

Spec == Init /\ [][Next]_vars

-----------------------------------------------------------------------------
(* Properties *)

Failed(st) == st.outcome \in {"nospawn", "exit1", "nochild", "create_failed", "write_failed"}

FailureMessages ==
    {"Failed to update git repository", "Failed to clone git repository",
     "Halide build failed", "Unable to build", "Failure building",
     "Failure while running", "Unable to write new file",
     "panic: Error updating git repository", "panic: Error downloading git repository",
     "panic: Error building Halide source", "panic: Error building",
     "panic: Error running", "panic: Unable to compile shared library",
     "panic: Unable to open output file"}

Spawning == {"Source::download", "Source::update", "Source::build", "Build::build",
             "compile_shared_library"}

\* the steps that asked for a child, in order
SpawnSteps == SelectSeq(steps, LAMBDA st : st.outcome \in {"nospawn", "exit0", "exit1"})

\* C1: in every subcommand the first step that fails aborts the program: a
\* message is logged, the exit code is not zero and no later step is started
C1_FirstFailureAborts ==
    \A i \in 1..Len(steps) :
        Failed(steps[i]) =>
            /\ i = Len(steps)
            /\ pc = "done"
            /\ alive = {}
            /\ exitCode.some /\ exitCode.val # 0
            /\ \E j \in 1..Len(logs) : logs[j] \in FailureMessages

\* C2: download, update, build (make), Build::build and
\* compile_shared_library spawn one child per call, never a second one, and
\* return Ok(true) exactly for a successful exit, Ok(false) exactly for an
\* unsuccessful exit and an error exactly when the child could not be spawned
C2_OneChildExitStatus ==
    /\ Len(spawned) = Len(SpawnSteps) + Cardinality(alive)
    /\ \A k \in 1..Len(SpawnSteps) : spawned[k].fn = SpawnSteps[k].fn
    /\ \A i \in 1..Len(steps) :
        steps[i].fn \in Spawning =>
            /\ steps[i].outcome \in {"nospawn", "exit0", "exit1"}
            /\ steps[i].ret = Ok(TRUE) <=> steps[i].outcome = "exit0"
            /\ steps[i].ret = Ok(FALSE) <=> steps[i].outcome = "exit1"
            /\ steps[i].ret = Err <=> steps[i].outcome = "nospawn"

C2_Witness ==
    /\ Len(steps) = 3
    /\ steps[1].fn = "Build::build" /\ steps[1].ret = Ok(TRUE)
    /\ steps[3].fn = "compile_shared_library" /\ steps[3].outcome = "exit1"
    /\ steps[3].ret = Ok(FALSE)

Git == {"Source::download", "Source::update"}

\* C3: src runs update if and only if the Halide path exists when it is
\* checked and download if and only if it does not, never both, and starts
\* make only after that step has finished and reported success
C3_SrcOrder ==
    /\ [][(cli.sub = "src" /\ spawned = <<>> /\ spawned' # <<>>) =>
            /\ Len(spawned') = 1
            /\ spawned'[1].fn = "Source::update" <=> exists.halide
            /\ spawned'[1].fn = "Source::download" <=> ~exists.halide]_vars
    /\ [](cli.sub = "src" =>
            /\ Len(spawned) <= 2
            /\ \A k \in 1..Len(spawned) :
                /\ spawned[k].fn \in Git <=> k = 1
                /\ spawned[k].fn = "Source::build" <=> k = 2
                /\ k = 2 => /\ Len(steps) >= 1
                            /\ steps[1].fn = spawned[1].fn
                            /\ steps[1].ret = Ok(TRUE)
                            /\ 1 \notin alive)

C3_Witness ==
    /\ cli.sub = "src"
    /\ pc = "wait_make"
    /\ Len(spawned) = 2
    /\ spawned[1].fn = "Source::download"
    /\ spawned[2].cmd.prog = S_make

\* C4: at most one child is alive at any time, a step is started only when no
\* child is alive, and the kernel is started only after the compile step has
\* ended with success
C4_Sequential ==
    /\ [](Cardinality(alive) <= 1)
    /\ [][Len(spawned') > Len(spawned) => alive = {}]_vars
    /\ [](\A k \in 1..Len(spawned) :
            spawned[k].fn = "Build::run" =>
                /\ k = 2
                /\ Len(steps) >= 1
                /\ steps[1].fn = "Build::build"
                /\ steps[1].outcome = "exit0"
                /\ steps[1].ret = Ok(TRUE))

C4_Witness ==
    /\ cli.sub = "run"
    /\ pc = "wait_run"
    /\ alive = {2}
    /\ spawned[2].fn = "Build::run"

\* the lists of ss one after the other
RECURSIVE Concat(_)
Concat(ss) == IF ss = <<>> THEN <<>> ELSE Head(ss) \o Concat(Tail(ss))

\* the argument list of the compiler as C5 gives it, for the Build b
C5_Args(b) ==
    Concat(<<
        <<S_std>>,
        <<S_I, b.halide_path \o <<"/">> \o S_include>>,
        <<S_I, b.halide_path \o <<"/">> \o S_tools>>,
        IF b.cxxflags.some THEN split(b.cxxflags.val) ELSE <<>>,
        IF b.generator THEN <<b.halide_path \o <<"/">> \o S_tools \o <<"/">> \o S_GenGen>>
        ELSE <<>>,
        b.build_args,
        b.src,
        <<S_o, b.output>>,
        <<S_L, b.halide_path \o <<"/">> \o S_libdir>>,
        <<S_lHalide, S_lpng, S_ljpeg, S_lpthread>>,
        <<IF cli.envTERMINFO.some THEN cli.envTERMINFO.val ELSE S_lncurses>>,
        <<S_ldl, S_lz>>,
        IF b.ldflags.some THEN split(b.ldflags.val) ELSE <<>> >>)

\* C5: Build::build gives the compiler its arguments in the fixed order
\* -std=c++11, the two -I, the cxxflags split on single spaces, GenGen.cpp
\* when generator, build_args, the sources, -o output, -L and the libraries,
\* and last the ldflags split on single spaces; no run_arg is among them
C5_CompileArgs ==
    \A k \in 1..Len(spawned) :
        spawned[k].fn = "Build::build" =>
            /\ spawned[k].cmd.args = C5_Args(build)
            /\ \A i \in 1..Len(spawned[k].cmd.args), j \in 1..Len(build.run_args) :
                spawned[k].cmd.args[i] # build.run_args[j]

C5_Witness ==
    /\ cli.sub = "build"
    /\ Len(spawned) >= 1
    /\ spawned[1].fn = "Build::build"
    /\ build.cxxflags.some /\ build.ldflags.some /\ build.generator
    /\ Len(build.build_args) = 2 /\ Len(build.src) = 2
    /\ cli.envTERMINFO.some
    /\ Len(spawned[1].cmd.args) = 26

\* the Build::run steps that found the output file
RanOutput(st) == st.fn = "Build::run" /\ st.outcome \in {"nospawn", "exit0", "exit1"}

\* C6: after Build::run on an existing output, remove_file has been called on
\* the output if and only if keep is false, whatever the outcome of the child
\* (exit, or failure to spawn); with keep the file is left in place, without
\* keep it is gone unless remove_file itself failed; and the value returned
\* is the outcome of the child whatever remove_file did
C6_RunCleanup ==
    /\ (\A i \in 1..Len(steps) : ~RanOutput(steps[i])) => removed = <<>>
    /\ \A i \in 1..Len(steps) :
        RanOutput(steps[i]) =>
            /\ Len(removed) = (IF build.keep THEN 0 ELSE 1)
            /\ build.keep => exists.output
            /\ ~build.keep => /\ removed[1].path = build.output
                              /\ exists.output <=> ~removed[1].ok
            /\ steps[i].ret = Ok(TRUE) <=> steps[i].outcome = "exit0"
            /\ steps[i].ret = Ok(FALSE) <=> steps[i].outcome = "exit1"
            /\ steps[i].ret = Err <=> steps[i].outcome = "nospawn"

C6_Witness ==
    /\ Len(steps) = 2
    /\ RanOutput(steps[2]) /\ steps[2].outcome = "nospawn"
    /\ ~build.keep
    /\ Len(removed) = 1 /\ removed[1].ok
    /\ ~exists.output

\* the shared library of x as C7 gives it: in the directory of x, the file
\* name of x with lib before it and what follows its last dot replaced by so
C7_LibPath(x) ==
    LET cut == LastIndexOf(x, "/")
        dir == SubSeq(x, 1, cut)
        name == S_lib \o SubSeq(x, cut + 1, Len(x))
        dot == LastIndexOf(name, ".")
        stem == IF dot = 0 THEN name ELSE SubSeq(name, 1, dot - 1)
    IN dir \o stem \o <<".">> \o S_so_ext

\* C7: the shared library is compiled only when --shared is given and every
\* earlier step of the subcommand has succeeded, by the compiler of the build
\* step, with the arguments -std=c++11 -shared -o <lib path> x
C7_SharedStep ==
    \A k \in 1..Len(spawned) :
        spawned[k].fn = "compile_shared_library" =>
            /\ cli.sub \in {"build", "run"}
            /\ cli.shared.some
            /\ k = (IF cli.sub = "build" THEN 2 ELSE 3)
            /\ k = Len(spawned)
            /\ Len(steps) >= k - 1
            /\ \A i \in 1..(k - 1) : steps[i].ret = Ok(TRUE)
            /\ steps[1].fn = "Build::build"
            /\ cli.sub = "run" => steps[2].fn = "Build::run"
            /\ spawned[k].cmd.prog = spawned[1].cmd.prog
            /\ spawned[k].cmd.args =
                <<S_std, S_shared, S_o, C7_LibPath(cli.shared.val), cli.shared.val>>

C7_Witness ==
    /\ cli.sub = "run"
    /\ Len(spawned) = 3
    /\ spawned[3].fn = "compile_shared_library"
    /\ cli.shared.val = <<"d", "/", ".", "k">>
    /\ spawned[3].cmd.args[4] = <<"d", "/", "l", "i", "b", ".", "s", "o">>
    /\ spawned[3].cmd.prog = <<"c", "l", "a", "n", "g", "+", "+">>

\* the library name of the stem s as C8 gives it: s without a leading lib
\* and without one trailing .a, .so or .dylib
C8_Name(s) ==
    LET pre == IF StartsWith(s, S_lib) THEN S_lib ELSE <<>>
        suf == IF EndsWith(s, S_a) THEN S_a
               ELSE IF EndsWith(s, S_so) THEN S_so
               ELSE IF EndsWith(s, S_dylib) THEN S_dylib
               ELSE <<>>
    IN IF Len(pre) + Len(suf) > Len(s) THEN <<"?">>
       ELSE SubSeq(s, Len(pre) + 1, Len(s) - Len(suf))

\* C8: for a file name with a stem, link does not panic and prints the
\* link-search directive of the parent directory and then the link-lib
\* directive of the stem without a leading lib and one trailing .a, .so or
\* .dylib
C8_Link ==
    (calls # <<>> /\ calls[1].fn = "link" /\ file_stem(calls[1].arg).some) =>
        /\ exitCode = Some(0)
        /\ out = << <<CARGO_LINK_SEARCH, parent(calls[1].arg)>>,
                    <<CARGO_LINK_LIB, C8_Name(file_stem(calls[1].arg).val)>> >>

C8_Witness ==
    /\ calls # <<>> /\ calls[1].fn = "link"
    /\ calls[1].arg = <<"/", "d", "/", "e", "/", "l", "i", "b", ".", "s", "o", ".", "a">>
    /\ out = << <<CARGO_LINK_SEARCH, <<"/", "d", "/", "e">>>>, <<CARGO_LINK_LIB, <<>> >> >>

\* C9: Build::run on a Build whose output does not exist returns Ok(false),
\* spawns no child and removes no file, whatever keep is
C9_RunNoOutput ==
    /\ [][(pc = "run" /\ ~exists.output) =>
            /\ ret' = Ok(FALSE)
            /\ spawned' = spawned /\ alive' = alive
            /\ removed' = removed /\ exists' = exists
            /\ Len(steps') = Len(steps) + 1
            /\ steps'[Len(steps')].fn = "Build::run"
            /\ steps'[Len(steps')].ret = Ok(FALSE)]_vars
    /\ [](\A i \in 1..Len(steps) :
            (steps[i].fn = "Build::run" /\ steps[i].outcome = "nochild") =>
                /\ steps[i].ret = Ok(FALSE)
                /\ \A k \in 1..Len(spawned) : spawned[k].fn # "Build::run"
                /\ removed = <<>>)

C9_Witness ==
    /\ Len(steps) = 2
    /\ steps[2].fn = "Build::run" /\ steps[2].outcome = "nochild"
    /\ ~build.keep
    /\ ret = Ok(FALSE)
    /\ Len(spawned) = 1

\* the arguments of the calls of the methods in fns, in call order; a method
\* named in plural gives a list of them
RECURSIVE Given(_, _, _)
Given(cs, one, many) ==
    IF cs = <<>> THEN <<>>
    ELSE (IF Head(cs).fn = one THEN <<Head(cs).arg>>
          ELSE IF Head(cs).fn = many THEN Head(cs).arg
          ELSE <<>>) \o Given(Tail(cs), one, many)

\* the argument of the last call of fn, d when there is none
LastGiven(cs, fn, d) ==
    LET g == Given(cs, fn, "")
    IN IF g = <<>> THEN d ELSE g[Len(g)]

OptGiven(cs, fn) ==
    LET g == Given(cs, fn, "")
    IN IF g = <<>> THEN None ELSE Some(g[Len(g)])

\* C10: Build::new gives empty lists, no compiler and no flags, keep and
\* generator false; after any builder calls each list holds what its own
\* methods were given, in call order, and each other field the last value
\* its own method was given; build and run leave the Build as it was made
C10_Builder ==
    /\ (calls # <<>> /\ calls[1].fn = "new") =>
        build = [halide_path |-> calls[1].arg[1],
                 output |-> calls[1].arg[2],
                 src |-> Given(calls, "source_file", ""),
                 build_args |-> Given(calls, "build_arg", "build_args"),
                 run_args |-> Given(calls, "run_arg", "run_args"),
                 cxx |-> OptGiven(calls, "compiler"),
                 cxxflags |-> OptGiven(calls, "cxxflags"),
                 ldflags |-> OptGiven(calls, "ldflags"),
                 keep |-> LastGiven(calls, "keep", FALSE),
                 generator |-> LastGiven(calls, "generator", FALSE)]
    /\ (cli.sub = "build" /\ pc # "start") => build = Build_of_build(cli)
    /\ (cli.sub = "run" /\ pc # "start") => build = Build_of_run(cli)

C10_Witness ==
    /\ Len(calls) = 4
    /\ calls[2].fn = "build_arg" /\ calls[3].fn = "ldflags" /\ calls[4].fn = "build_args"
    /\ Len(build.build_args) = 3
    /\ build.ldflags.some /\ ~build.cxxflags.some

=============================================================================
